---- MODULE Spec2Model ----
(***************************************************************************)
(* Model of the train/evaluate glue of the time series forecast plugin:    *)
(*   python-lib/gluonts_forecasts/model.py   (class Model)                 *)
(*   python-lib/constants.py                 (column labels)               *)
(*   custom-recipes/.../recipe.py            (the train-evaluate recipe)   *)
(***************************************************************************)
EXTENDS Integers, Sequences, FiniteSets, TLC

(* ------------------------------ bounds -------------------------------- *)
\* longest ListDataset (number of time series) and longest forecasts list
MaxSeries == 2
\* number of calls made on one Model object
MaxCalls == 2

(* ---------------------------- constants.py ---------------------------- *)
None == "None"

\* class METRICS_DATASET: the attributes the class defines, and no other
METRICS_DATASET ==
  [TARGET_COLUMN |-> "target_column",
   MODEL_COLUMN |-> "model",
   AGGREGATED_ROW |-> "aggregated",
   MODEL_PARAMETERS |-> "model_params",
   SESSION |-> "session"]

\* class TIMESERIES_KEYS
TIMESERIES_KEYS ==
  [START |-> "start",
   TARGET |-> "target",
   TARGET_NAME |-> "target_name",
   TIME_COLUMN_NAME |-> "time_column_name",
   FEAT_DYNAMIC_REAL |-> "feat_dynamic_real",
   FEAT_DYNAMIC_REAL_COLUMNS_NAMES |-> "feat_dynamic_real_columns_names",
   IDENTIFIERS |-> "identifiers"]

\* keys of EVALUATION_METRICS_DESCRIPTIONS, in the order of the dictionary
EVALUATION_METRICS_DESCRIPTIONS ==
  <<"MSE", "MASE", "MAPE", "sMAPE", "MSIS", "RMSE", "ND", "mean_wQuantileLoss">>

\* Python attribute lookup cls.attr: defined or AttributeError
HasAttr(cls, attr) == attr \in DOMAIN cls

(* ------------------------- the input universe ------------------------- *)
\* identifier columns and their values; column names are compared as Python
\* compares strings ("region" < "store")
IdCols == {"region", "store"}
IdVals == {"A", "B"}
ColRank(c) == IF c = "region" THEN 1 ELSE 2
TargetNames == {"y1", "y2"}

\* A Python dict of identifiers is a sequence of <<column, value>> entries in
\* insertion order, with distinct columns.
IdentifiersDicts ==
  {<< <<c, "A">> >> : c \in IdCols}
    \cup {<< <<"region", v>>, <<"store", "A">> >> : v \in IdVals}
    \cup {<< <<"store", "A">>, <<"region", v>> >> : v \in IdVals}

\* One univariate time series of a ListDataset: has_identifiers tells whether
\* the "identifiers" key is in the dictionary.
TimeSeries ==
  [target_name : TargetNames, has_identifiers : {FALSE}, identifiers : {<<>>}]
    \cup [target_name : TargetNames, has_identifiers : {TRUE},
          identifiers : IdentifiersDicts]

SeqsUpTo(S, n) == UNION {[1..k -> S] : k \in 0..n}

\* list_data of a ListDataset
Datasets == SeqsUpTo(TimeSeries, MaxSeries)

(* --------------------------- dict helpers ----------------------------- *)
SeqToSet(s) == {s[i] : i \in 1..Len(s)}

\* dict.keys(): the columns in insertion order
Keys(d) == [i \in 1..Len(d) |-> d[i][1]]

\* key in dict
HasKey(d, k) == \E i \in 1..Len(d) : d[i][1] = k

\* dict[key], for a key of the dict
Get(d, k) == d[CHOOSE i \in 1..Len(d) : d[i][1] = k][2]

\* the order Python gives to the (column, value) items of a dict: by column,
\* the columns of a dict being distinct
ItemLess(a, b) == ColRank(a[1]) < ColRank(b[1])

RECURSIVE Insert(_, _)
Insert(x, s) ==
  IF s = <<>> THEN <<x>>
  ELSE IF ItemLess(x, Head(s)) THEN <<x>> \o s
  ELSE <<Head(s)>> \o Insert(x, Tail(s))

\* the items left in insertion order
UnsortedItems(d) == d

RECURSIVE SortedItems(_)
\* sorted(d.items())
SortedItems(d) ==
  IF d = <<>> THEN <<>> ELSE Insert(Head(d), SortedItems(Tail(d)))

(* ------------------ Model._compute_median_forecasts_timeseries -------- *)
\* The dictionary key of a time series: tuple(sorted(identifiers.items())),
\* or None when the time series has no "identifiers" key.
TimeseriesIdentifierKey(ts) ==
  IF ts.has_identifiers
  THEN [none |-> FALSE, items |-> SortedItems(ts.identifiers)]
  ELSE [none |-> TRUE, items |-> <<>>]

\* d[k] += [x] if k in d else d[k] = [x]; a dict keeps its insertion order
DictAppend(d, k, x) ==
  IF HasKey(d, k)
  THEN [i \in 1..Len(d) |->
          IF d[i][1] = k THEN <<k, Append(d[i][2], x)>> ELSE d[i]]
  ELSE Append(d, <<k, <<x>>>>)

\* The median series of one forecast, renamed "<model_name>_<target_name>".
MedianSeries(model_name, forecast, ts) ==
  [forecast |-> forecast, name |-> <<model_name, ts.target_name>>]

RECURSIVE MedianLoop(_, _, _, _, _)
\* the loop over enumerate(forecasts_list), from (1-based) index i on
MedianLoop(model_name, forecasts_list, list_data, i, acc) ==
  IF i > Len(forecasts_list) THEN [exc |-> None, value |-> acc]
  ELSE IF i > Len(list_data) THEN [exc |-> "IndexError", value |-> <<>>]
  ELSE MedianLoop(model_name, forecasts_list, list_data, i + 1,
                  DictAppend(acc, TimeseriesIdentifierKey(list_data[i]),
                             MedianSeries(model_name, forecasts_list[i],
                                          list_data[i])))

ComputeMedianForecastsTimeseries(model_name, forecasts_list, list_data) ==
  MedianLoop(model_name, forecasts_list, list_data, 1, <<>>)

(* ------------------------ Model._format_metrics ----------------------- *)
\* the metrics of the i-th row of item_metrics, as the evaluator computed them
ItemToken(i) == "item" \o ToString(i)

\* identifiers_columns: the identifier columns of the FIRST time series
IdentifiersColumns(list_data) ==
  IF list_data[1].has_identifiers THEN Keys(list_data[1].identifiers) ELSE <<>>

\* univariate_timeseries["identifiers"][identifiers_column] raises KeyError
LookupFails(list_data, identifiers_columns) ==
  \E i \in 1..Len(list_data) : \E c \in SeqToSet(identifiers_columns) :
     \/ ~list_data[i].has_identifiers
     \/ ~HasKey(list_data[i].identifiers, c)

\* the columns kept by metrics[[...]], then model_params
MetricsColumns(identifiers_columns) ==
  <<METRICS_DATASET.TARGET_COLUMN>> \o identifiers_columns
    \o <<METRICS_DATASET.MODEL_COLUMN>> \o EVALUATION_METRICS_DESCRIPTIONS
    \o <<METRICS_DATASET.TRAINING_TIME>> \o <<METRICS_DATASET.MODEL_PARAMETERS>>

\* row i of item_metrics after the column assignments
ItemRow(label, list_data, identifiers_columns, i) ==
  [c \in SeqToSet(MetricsColumns(identifiers_columns)) |->
     IF c = METRICS_DATASET.TARGET_COLUMN THEN list_data[i].target_name
     ELSE IF c = METRICS_DATASET.MODEL_COLUMN THEN label
     ELSE IF c = METRICS_DATASET.MODEL_PARAMETERS THEN "model_params_json"
     ELSE IF c = METRICS_DATASET.TRAINING_TIME THEN "NaN"
     ELSE IF c \in SeqToSet(identifiers_columns)
       THEN Get(list_data[i].identifiers, c)
     ELSE ItemToken(i)]

\* agg_metrics after the assignments: the appended row
AggRow(label, identifiers_columns) ==
  [c \in SeqToSet(MetricsColumns(identifiers_columns)) |->
     IF c = METRICS_DATASET.TARGET_COLUMN THEN METRICS_DATASET.AGGREGATED_ROW
     ELSE IF c = METRICS_DATASET.MODEL_COLUMN THEN label
     ELSE IF c = METRICS_DATASET.MODEL_PARAMETERS THEN "model_params_json"
     ELSE IF c = METRICS_DATASET.TRAINING_TIME THEN "training_time"
     ELSE IF c \in SeqToSet(identifiers_columns)
       THEN METRICS_DATASET.AGGREGATED_ROW
     ELSE "agg"]

\* _format_metrics(agg_metrics, item_metrics, train_list_dataset), item_metrics
\* having n_items rows.  exc is the exception raised (None: it returns
\* <<metrics, identifiers_columns>>); identifiers_columns is the local of that
\* name when the function is left.  Line 184 reads
\* METRICS_DATASET.TRAINING_TIME, an attribute constants.py does not define:
\* the lookup raises AttributeError.
FormatMetrics(label, n_items, list_data) ==
  IF Len(list_data) = 0
    THEN [exc |-> "IndexError", identifiers_columns |-> <<>>, metrics |-> <<>>]
  ELSE LET identifiers_columns == IdentifiersColumns(list_data)
           raised(e) == [exc |-> e, identifiers_columns |-> identifiers_columns,
                         metrics |-> <<>>]
       IN IF LookupFails(list_data, identifiers_columns) THEN raised("KeyError")
          ELSE IF n_items # Len(list_data) THEN raised("ValueError")
          ELSE IF ~HasAttr(METRICS_DATASET, "TRAINING_TIME")
            THEN raised("AttributeError")
          ELSE [exc |-> None, identifiers_columns |-> identifiers_columns,
                metrics |->
                  [i \in 1..(n_items + 1) |->
                     IF i <= n_items
                     THEN ItemRow(label, list_data, identifiers_columns, i)
                     ELSE AggRow(label, identifiers_columns)]]

(* ------------------------------ state --------------------------------- *)
VARIABLES
  model_name,          \* Model.model_name
  estimator,           \* Model.estimator: the id of the estimator object, NoObject for None
  predictor,           \* Model.predictor
  next_id,             \* the id the next object created gets
  calls,               \* calls made on the Model so far
  last,                \* the last call: its arguments, what it did, how it ended
  train_list_dataset,  \* list_data of the dataset the framing functions get
  fm,                  \* the call of _format_metrics
  mf,                  \* the call of _compute_median_forecasts_timeseries
  pc,                  \* recipe.py: the step the script is at
  error,               \* recipe.py: the step that raised, None while none did
  trace,               \* recipe.py: the steps completed, in order
  params_make_forecasts, \* recipe.py: params['make_forecasts']
  global_models,       \* how far the GlobalModels object has got
  evaluation_dataset,  \* content and column descriptions of params['evaluation_dataset']
  evaluation_forecasts \* content and column descriptions of params['evaluation_forecasts']

modelVars == <<model_name, estimator, predictor, next_id, calls, last>>
frameVars == <<train_list_dataset, fm, mf>>
recipeVars == <<pc, error, trace, params_make_forecasts, global_models,
                evaluation_dataset, evaluation_forecasts>>
vars == <<modelVars, frameVars, recipeVars>>

\* Python's None as an object reference
NoObject == 0

\* model names: one with a GluonTS estimator, one that needs no training
\* ("models that don't need training like trivial.identity")
ModelNames == {"deepar", "trivial_identity"}

\* ModelHandler.get_label(self)
GetLabel(name) == "label_" \o name

\* ModelHandler.estimator(self, model_parameters, **kwargs): a new estimator
\* object, or None for a model that has none
ModelHandlerEstimator(name, id) == IF name = "deepar" THEN id ELSE NoObject

NonePredictor == [kind |-> "None", id |-> NoObject, estimator |-> NoObject, data |-> "-"]

\* ModelHandler.predictor(self, **kwargs): an untrained predictor
ModelHandlerPredictor(id) ==
  [kind |-> "handler", id |-> id, estimator |-> NoObject, data |-> "-"]

\* self.estimator.train(train_list_dataset), when it returns
EstimatorTrain(est, data, id) ==
  [kind |-> "trained", id |-> id, estimator |-> est, data |-> data]

(* --------------------------- exceptions ------------------------------- *)
\* what a call into GluonTS may raise: subclasses of Exception, and one
\* BaseException that is no Exception
Exceptions == {"ValueError", "MXNetError"}
BaseExceptions == {"KeyboardInterrupt"}
Outcomes == {"ok"} \cup Exceptions \cup BaseExceptions

\* a handler that lets the estimator's exception through
RaisedUnwrapped(e) == e

\* "except Exception as err: raise ModelTrainingError(...)": the exception
\* that leaves _train_estimator when estimator.train raises e
RaisedFromTraining(e) == IF e \in Exceptions THEN "ModelTrainingError" ELSE e

(* ----------------------- Model._train_estimator ----------------------- *)
\* outcome is what estimator.train does when it is called
TrainEstimator(est, data, outcome, id) ==
  IF est = NoObject
  THEN [exc |-> None, predictor |-> ModelHandlerPredictor(id),
        event |-> [op |-> "_train_estimator", data |-> data, trained |-> FALSE,
                   outcome |-> "ok", predictor |-> id]]
  ELSE IF outcome = "ok"
  THEN [exc |-> None, predictor |-> EstimatorTrain(est, data, id),
        event |-> [op |-> "_train_estimator", data |-> data, trained |-> TRUE,
                   outcome |-> "ok", predictor |-> id]]
  ELSE [exc |-> RaisedFromTraining(outcome), predictor |-> NonePredictor,
        event |-> [op |-> "_train_estimator", data |-> data, trained |-> TRUE,
                   outcome |-> outcome, predictor |-> NoObject]]

\* the outcomes estimator.train can have: it is not called without estimator
TrainOutcomes(est) == IF est = NoObject THEN {"ok"} ELSE Outcomes

NotCalled == [called |-> FALSE]

\* a Model after __init__ (lines 84-85), the framing functions not called
InitModel ==
  /\ model_name \in ModelNames
  /\ estimator = ModelHandlerEstimator(model_name, 1)
  /\ predictor = NonePredictor
  /\ next_id = 2
  /\ calls = 0
  /\ last = [call |-> "none"]
  /\ train_list_dataset = <<>>
  /\ fm = NotCalled
  /\ mf = NotCalled
  /\ pc = 1
  /\ error = None
  /\ trace = <<>>
  /\ params_make_forecasts = FALSE
  /\ global_models = "none"
  /\ evaluation_dataset = [content |-> "empty", descriptions |-> FALSE]
  /\ evaluation_forecasts = [content |-> "empty", descriptions |-> FALSE]

\* the call ends: the object's fields and the record of the call
EndCall(est, pred, nid, rec) ==
  /\ estimator' = est
  /\ predictor' = pred
  /\ next_id' = nid
  /\ calls' = calls + 1
  /\ last' = rec
  /\ UNCHANGED model_name

(* ----------------------------- Model.train ---------------------------- *)
\* self.predictor after the assignment of line 100, which is not reached
\* when _train_estimator raises
PredictorAfterTrain(old, r) == IF r.exc = None THEN r.predictor ELSE old

\* train(train_list_dataset, reinit) as a function of the object: the new
\* estimator, predictor, next id, the exception and the events
ModelTrain(name, est, pred, nid, data, reinit, outcome) ==
  LET est1 == IF reinit THEN ModelHandlerEstimator(name, nid) ELSE est
      nid1 == IF reinit /\ est1 # NoObject THEN nid + 1 ELSE nid
      reinits == IF reinit
                 THEN <<[op |-> "estimator", data |-> "-", trained |-> FALSE,
                         outcome |-> "ok", predictor |-> NoObject]>>
                 ELSE <<>>
      r == TrainEstimator(est1, data, outcome, nid1)
  IN [estimator |-> est1,
      predictor |-> PredictorAfterTrain(pred, r),
      next_id |-> nid1 + 1,
      exc |-> r.exc,
      log |-> reinits \o <<r.event>>]

DatasetNames == {"train_list_dataset", "test_list_dataset"}

Train ==
  /\ calls < MaxCalls
  /\ \E data \in DatasetNames, reinit \in BOOLEAN :
       LET est1 == IF reinit THEN ModelHandlerEstimator(model_name, next_id)
                   ELSE estimator
       IN \E outcome \in TrainOutcomes(est1) :
            LET t == ModelTrain(model_name, estimator, predictor, next_id,
                                data, reinit, outcome)
            IN EndCall(t.estimator, t.predictor, t.next_id,
                       [call |-> "train", retrain |-> FALSE,
                        make_forecasts |-> FALSE, pre_predictor |-> predictor,
                        log |-> t.log, exc |-> t.exc, stage |-> "train",
                        identifiers_columns |-> <<>>])

(* ------------------------ Model.train_evaluate ------------------------ *)
\* the evaluation predictor stored in self.predictor
PredictorStored(self_predictor, evaluation_predictor) == evaluation_predictor

\* self.predictor once evaluation_predictor, a local, has been trained
PredictorAfterEvaluation(self_predictor, evaluation_predictor) == self_predictor

\* the dataset the retraining of line 128 is given
RetrainDataset(train_data, test_data) == test_data

\* the record of a train_evaluate call
EvalRecord(make_forecasts, retrain, log, exc, stage, cols) ==
  [call |-> "train_evaluate", retrain |-> retrain,
   make_forecasts |-> make_forecasts, pre_predictor |-> predictor,
   log |-> log, exc |-> exc, stage |-> stage, identifiers_columns |-> cols]

EvaluationEvent(p, data, outcome) ==
  [op |-> "_make_evaluation_predictions", data |-> data, trained |-> FALSE,
   outcome |-> outcome, predictor |-> p.id]

\* the train_list_dataset of a train_evaluate call: one list_data for each way
\* _format_metrics can go (every list_data is tried on _format_metrics itself
\* under SpecFrame)
SampleDatasets ==
  LET plain == [target_name |-> "y1", has_identifiers |-> FALSE,
                identifiers |-> <<>>]
      byRegion == [target_name |-> "y2", has_identifiers |-> TRUE,
                   identifiers |-> << <<"region", "A">> >>]
  IN {<<>>, <<plain>>, <<byRegion>>, <<byRegion, plain>>, <<plain, byRegion>>,
      <<byRegion, byRegion>>}

\* lines 130-138: the metrics are formatted on train_list_dataset, the
\* forecasts of the test time series framed when make_forecasts
FormatAndReturn(est, pred, nid, make_forecasts, retrain, log) ==
  \E list_data \in SampleDatasets, n_test \in 0..MaxSeries :
    LET f == FormatMetrics(GetLabel(model_name), n_test, list_data)
        m == ComputeMedianForecastsTimeseries(
               model_name, [i \in 1..n_test |-> i], list_data)
    IN IF f.exc # None
       THEN EndCall(est, pred, nid,
                    EvalRecord(make_forecasts, retrain, log, f.exc,
                               "_format_metrics", f.identifiers_columns))
       ELSE IF make_forecasts /\ m.exc # None
       THEN EndCall(est, pred, nid,
                    EvalRecord(make_forecasts, retrain, log, m.exc,
                               "_compute_median_forecasts_timeseries",
                               f.identifiers_columns))
       ELSE EndCall(est, pred, nid,
                    EvalRecord(make_forecasts, retrain, log, None, "return",
                               f.identifiers_columns))

TrainEvaluate ==
  /\ calls < MaxCalls
  /\ \E make_forecasts \in BOOLEAN, retrain \in BOOLEAN :
     \E o1 \in TrainOutcomes(estimator) :
       LET r1 == TrainEstimator(estimator, "train_list_dataset", o1, next_id)
           pred1 == PredictorAfterEvaluation(predictor, r1.predictor)
           nid1 == next_id + 1
       IN IF r1.exc # None
          THEN EndCall(estimator, predictor, nid1,
                       EvalRecord(make_forecasts, retrain, <<r1.event>>,
                                  r1.exc, "train", <<>>))
          ELSE \E o2 \in Outcomes :
            LET log2 == <<r1.event,
                          EvaluationEvent(r1.predictor, "test_list_dataset", o2)>>
            IN IF o2 # "ok"
               THEN EndCall(estimator, pred1, nid1,
                            EvalRecord(make_forecasts, retrain, log2, o2,
                                       "evaluate", <<>>))
               ELSE IF retrain
               THEN \E o3 \in TrainOutcomes(ModelHandlerEstimator(model_name, nid1)) :
                      LET t == ModelTrain(model_name, estimator, pred1, nid1,
                                          RetrainDataset("train_list_dataset",
                                                         "test_list_dataset"),
                                          TRUE, o3)
                      IN IF t.exc # None
                         THEN EndCall(t.estimator, t.predictor, t.next_id,
                                      EvalRecord(make_forecasts, retrain,
                                                 log2 \o t.log, t.exc,
                                                 "retrain", <<>>))
                         ELSE FormatAndReturn(t.estimator, t.predictor,
                                              t.next_id, make_forecasts,
                                              retrain, log2 \o t.log)
               ELSE FormatAndReturn(estimator, pred1, nid1, make_forecasts,
                                    retrain, log2)

NextModel ==
  \/ Train /\ UNCHANGED <<frameVars, recipeVars>>
  \/ TrainEvaluate /\ UNCHANGED <<frameVars, recipeVars>>

SpecModel == InitModel /\ [][NextModel]_vars

(* ============ specification of the two framing functions ============== *)
\* a Model after __init__ and a train_list_dataset
InitFrame ==
  /\ model_name \in ModelNames
  /\ estimator = ModelHandlerEstimator(model_name, 1)
  /\ predictor = NonePredictor
  /\ next_id = 2
  /\ calls = 0
  /\ last = [call |-> "none"]
  /\ train_list_dataset \in Datasets
  /\ fm = NotCalled
  /\ mf = NotCalled
  /\ pc = 1
  /\ error = None
  /\ trace = <<>>
  /\ params_make_forecasts = FALSE
  /\ global_models = "none"
  /\ evaluation_dataset = [content |-> "empty", descriptions |-> FALSE]
  /\ evaluation_forecasts = [content |-> "empty", descriptions |-> FALSE]

\* one call of _format_metrics on an item_metrics of n_items rows
CallFormatMetrics ==
  /\ ~fm.called
  /\ \E n_items \in 0..MaxSeries :
       fm' = [called |-> TRUE, n_items |-> n_items,
              out |-> FormatMetrics(GetLabel(model_name), n_items,
                                    train_list_dataset)]
  /\ UNCHANGED <<train_list_dataset, mf>>

\* one call of _compute_median_forecasts_timeseries on n forecasts
CallComputeMedian ==
  /\ ~mf.called
  /\ \E n \in 0..MaxSeries :
       LET forecasts_list == [i \in 1..n |-> i]
       IN mf' = [called |-> TRUE, forecasts_list |-> forecasts_list,
                 out |-> ComputeMedianForecastsTimeseries(
                           model_name, forecasts_list, train_list_dataset)]
  /\ UNCHANGED <<train_list_dataset, fm>>

NextFrame ==
  \/ CallFormatMetrics /\ UNCHANGED <<modelVars, recipeVars>>
  \/ CallComputeMedian /\ UNCHANGED <<modelVars, recipeVars>>

SpecFrame == InitFrame /\ [][NextFrame]_vars

(* ===================== the train-evaluate recipe ====================== *)
\* The statements of recipe.py, in the order of the file.  The script has no
\* try/except: a statement that raises ends it.
Steps ==
  <<"load_training_config",                              \* lines 9-14
    "get_dataframe",                                     \* line 16
    "assert_continuous_time_column",                     \* lines 18-20
    "GlobalModels",                                      \* lines 22-33
    "init_all_models",                                   \* line 34
    "evaluate_all",                                      \* line 36
    "fit_all",                                           \* line 38
    "save_all",                                          \* line 40
    "get_metrics_df",                                    \* line 42
    "write_metrics",                                     \* line 43
    "create_metrics_column_description",                 \* line 45
    "set_metrics_column_description",                    \* line 46
    "get_evaluation_forecasts_df",                       \* line 49
    "write_evaluation_forecasts",                        \* line 50
    "create_evaluation_forecasts_column_description",    \* line 52
    "set_evaluation_forecasts_column_description">>      \* line 53

StepIndex(name) == CHOOSE i \in 1..Len(Steps) : Steps[i] = name
EndOfScript == Len(Steps) + 1

\* the forecasts written whatever the flag
ForecastsAlways(flag) == TRUE

\* "if params['make_forecasts']:" (line 48)
ForecastsBranch(flag) == flag

\* the statement after step i
NextPc(i, flag) ==
  IF Steps[i] = "set_metrics_column_description" /\ ~ForecastsBranch(flag)
  THEN EndOfScript
  ELSE i + 1

Running(name) == error = None /\ pc = StepIndex(name)

\* the statement at pc returns
Completes(name) ==
  /\ pc' = NextPc(pc, params_make_forecasts)
  /\ trace' = Append(trace, name)
  /\ UNCHANGED <<error, params_make_forecasts>>

\* the statement at pc raises: the script ends there
Raises(name) ==
  /\ error' = name
  /\ UNCHANGED <<pc, trace, params_make_forecasts>>

\* a statement with no effect on the models or on the output datasets
Plain(name) ==
  /\ Running(name)
  /\ Completes(name) \/ Raises(name)
  /\ UNCHANGED <<global_models, evaluation_dataset, evaluation_forecasts>>

\* a method of GlobalModels that takes the models from one stage to the next
ModelsStep(name, from, to) ==
  /\ Running(name)
  /\ global_models = from
  /\ \/ Completes(name) /\ global_models' = to
     \/ Raises(name) /\ UNCHANGED global_models
  /\ UNCHANGED <<evaluation_dataset, evaluation_forecasts>>

\* dataset.write_with_schema(df): the content when it returns, the previous
\* content or a partial one when it raises
Written(name, dataset, content) ==
  \/ Completes(name) /\ dataset' = [dataset EXCEPT !.content = content]
  \/ Raises(name) /\ \E c \in {dataset.content, "partial"} :
       dataset' = [dataset EXCEPT !.content = c]

\* set_column_description(dataset, descriptions)
Described(name, dataset) ==
  \/ Completes(name) /\ dataset' = [dataset EXCEPT !.descriptions = TRUE]
  \/ Raises(name) /\ UNCHANGED dataset

LoadTrainingConfig == Plain("load_training_config")
GetDataframe == Plain("get_dataframe")
AssertContinuousTimeColumn == Plain("assert_continuous_time_column")
NewGlobalModels == ModelsStep("GlobalModels", "none", "constructed")
InitAllModels == ModelsStep("init_all_models", "constructed", "initialised")
EvaluateAll == ModelsStep("evaluate_all", "initialised", "evaluated")
FitAll == ModelsStep("fit_all", "evaluated", "fitted")
SaveAll == ModelsStep("save_all", "fitted", "saved")
GetMetricsDf == Plain("get_metrics_df")

WriteMetrics ==
  /\ Running("write_metrics")
  /\ Written("write_metrics", evaluation_dataset, "metrics")
  /\ UNCHANGED <<global_models, evaluation_forecasts>>

CreateMetricsColumnDescription == Plain("create_metrics_column_description")

SetMetricsColumnDescription ==
  /\ Running("set_metrics_column_description")
  /\ Described("set_metrics_column_description", evaluation_dataset)
  /\ UNCHANGED <<global_models, evaluation_forecasts>>

GetEvaluationForecastsDf == Plain("get_evaluation_forecasts_df")

WriteEvaluationForecasts ==
  /\ Running("write_evaluation_forecasts")
  /\ Written("write_evaluation_forecasts", evaluation_forecasts, "forecasts")
  /\ UNCHANGED <<global_models, evaluation_dataset>>

CreateEvaluationForecastsColumnDescription ==
  Plain("create_evaluation_forecasts_column_description")

SetEvaluationForecastsColumnDescription ==
  /\ Running("set_evaluation_forecasts_column_description")
  /\ Described("set_evaluation_forecasts_column_description",
               evaluation_forecasts)
  /\ UNCHANGED <<global_models, evaluation_dataset>>

\* the recipe starts: the output datasets are empty or hold a previous run's
\* content; no Model call and no framing call is in play
InitRecipe ==
  /\ pc = 1
  /\ error = None
  /\ trace = <<>>
  /\ params_make_forecasts \in BOOLEAN
  /\ global_models = "none"
  /\ evaluation_dataset \in
       [content : {"empty", "previous"}, descriptions : BOOLEAN]
  /\ evaluation_forecasts \in
       [content : {"empty", "previous"}, descriptions : BOOLEAN]
  /\ model_name = "deepar"
  /\ estimator = ModelHandlerEstimator(model_name, 1)
  /\ predictor = NonePredictor
  /\ next_id = 2
  /\ calls = 0
  /\ last = [call |-> "none"]
  /\ train_list_dataset = <<>>
  /\ fm = NotCalled
  /\ mf = NotCalled

NextRecipe ==
  \/ LoadTrainingConfig /\ UNCHANGED <<modelVars, frameVars>>
  \/ GetDataframe /\ UNCHANGED <<modelVars, frameVars>>
  \/ AssertContinuousTimeColumn /\ UNCHANGED <<modelVars, frameVars>>
  \/ NewGlobalModels /\ UNCHANGED <<modelVars, frameVars>>
  \/ InitAllModels /\ UNCHANGED <<modelVars, frameVars>>
  \/ EvaluateAll /\ UNCHANGED <<modelVars, frameVars>>
  \/ FitAll /\ UNCHANGED <<modelVars, frameVars>>
  \/ SaveAll /\ UNCHANGED <<modelVars, frameVars>>
  \/ GetMetricsDf /\ UNCHANGED <<modelVars, frameVars>>
  \/ WriteMetrics /\ UNCHANGED <<modelVars, frameVars>>
  \/ CreateMetricsColumnDescription /\ UNCHANGED <<modelVars, frameVars>>
  \/ SetMetricsColumnDescription /\ UNCHANGED <<modelVars, frameVars>>
  \/ GetEvaluationForecastsDf /\ UNCHANGED <<modelVars, frameVars>>
  \/ WriteEvaluationForecasts /\ UNCHANGED <<modelVars, frameVars>>
  \/ CreateEvaluationForecastsColumnDescription /\ UNCHANGED <<modelVars, frameVars>>
  \/ SetEvaluationForecastsColumnDescription /\ UNCHANGED <<modelVars, frameVars>>

SpecRecipe == InitRecipe /\ [][NextRecipe]_vars

(* ============================== claims ================================ *)
(* ------------------------- under SpecModel ---------------------------- *)
\* the train_evaluate call got past training, evaluation and, when asked,
\* retraining: lines 121-128 are done
PastRetraining ==
  /\ last.call = "train_evaluate"
  /\ last.stage \in {"_format_metrics", "_compute_median_forecasts_timeseries",
                     "return"}

\* C1: train_evaluate first trains on train_list_dataset, then evaluates the
\* predictor this gave on test_list_dataset, and only then, if and only if
\* retrain=True, retrains on test_list_dataset.  Once lines 121-128 are done,
\* self.predictor is the predictor the retraining on test_list_dataset
\* returned when retrain=True, and the value it had before the call when
\* retrain=False; the evaluation predictor is never stored in self.predictor.
C1_TrainEvaluateOrder ==
  last.call = "train_evaluate" =>
    LET log == last.log
    IN /\ Len(log) \in {1, 2, 4}
       /\ log[1].op = "_train_estimator"
       /\ log[1].data = "train_list_dataset"
       /\ Len(log) >= 2 =>
            /\ log[1].outcome = "ok"
            /\ log[2].op = "_make_evaluation_predictions"
            /\ log[2].data = "test_list_dataset"
            /\ log[2].predictor = log[1].predictor
       /\ Len(log) = 4 <=>
            (last.retrain /\ Len(log) >= 2 /\ log[2].outcome = "ok")
       /\ Len(log) = 4 =>
            /\ log[3].op = "estimator"
            /\ log[4].op = "_train_estimator"
            /\ log[4].data = "test_list_dataset"
       /\ (PastRetraining /\ last.retrain) =>
            /\ log[4].outcome = "ok"
            /\ predictor.id = log[4].predictor
            /\ predictor.id # last.pre_predictor.id
            /\ estimator # NoObject =>
                 /\ predictor.kind = "trained"
                 /\ predictor.data = "test_list_dataset"
                 /\ predictor.estimator = estimator
       /\ (PastRetraining /\ ~last.retrain) => predictor = last.pre_predictor
       /\ log[1].outcome = "ok" => predictor.id # log[1].predictor

\* C1's case: a Model that already holds a predictor is evaluated and
\* retrained, and now holds the predictor trained on test_list_dataset
C1_Witness ==
  /\ PastRetraining
  /\ last.retrain
  /\ last.pre_predictor.kind = "trained"
  /\ predictor.kind = "trained"
  /\ predictor.data = "test_list_dataset"
  /\ predictor # last.pre_predictor

\* estimator.train raised an Exception during the last call
TrainingRaised ==
  \E i \in 1..Len(last.log) :
     /\ last.log[i].op = "_train_estimator"
     /\ last.log[i].trained
     /\ last.log[i].outcome \in Exceptions

\* C2: when the estimator's training raises an Exception during train or
\* train_evaluate (the retraining step included), the call fails with
\* ModelTrainingError and self.predictor keeps the value it had before the
\* call; a model whose estimator is None never attempts estimator training
\* and gets its predictor from the model handler.
C2_TrainingError ==
  last.call \in {"train", "train_evaluate"} =>
    /\ TrainingRaised =>
         /\ last.exc = "ModelTrainingError"
         /\ predictor = last.pre_predictor
    /\ estimator = NoObject =>
         /\ \A i \in 1..Len(last.log) :
              last.log[i].op = "_train_estimator" =>
                /\ ~last.log[i].trained
                /\ last.log[i].outcome = "ok"
                /\ last.log[i].predictor # NoObject
         /\ last.exc # "ModelTrainingError"
         /\ last.call = "train" =>
              /\ predictor.kind = "handler"
              /\ predictor.id = last.log[Len(last.log)].predictor

\* C2's case: the retraining step of train_evaluate raises, on a Model that
\* held a predictor before the call
C2_Witness ==
  /\ last.call = "train_evaluate"
  /\ last.stage = "retrain"
  /\ TrainingRaised
  /\ last.exc = "ModelTrainingError"
  /\ last.pre_predictor.kind = "trained"
  /\ predictor = last.pre_predictor

(* ------------------------- under SpecFrame ---------------------------- *)
\* the (column, value) pairs of a time series' identifiers
IdentifierPairs(ts) == SeqToSet(ts.identifiers)

\* two time series with the same identifier column/value pairs (or both
\* without identifiers)
SameIdentifiers(a, b) ==
  /\ a.has_identifiers = b.has_identifiers
  /\ IdentifierPairs(a) = IdentifierPairs(b)

RECURSIVE SumOfLengths(_)
SumOfLengths(d) ==
  IF d = <<>> THEN 0 ELSE Len(Head(d)[2]) + SumOfLengths(Tail(d))

\* the places <<entry, position>> of the dictionary d that hold forecast f
PlacesOf(d, f) ==
  {pl \in (1..Len(d)) \X (1..SumOfLengths(d)) :
     /\ pl[2] <= Len(d[pl[1]][2])
     /\ d[pl[1]][2][pl[2]].forecast = f}

\* C5: _compute_median_forecasts_timeseries partitions the forecasts by
\* identifiers: every forecast is exactly once in the returned dictionary, in
\* input order within its list, under the key built from the identifiers of
\* the time series at the same index (None without identifiers); two time
\* series with the same identifier pairs share one key whatever the order of
\* their entries; the lengths of the lists sum to len(forecasts_list).
C5_MedianForecastsPartition ==
  (mf.called /\ mf.out.exc = None) =>
    LET d == mf.out.value
        fl == mf.forecasts_list
        ts(i) == train_list_dataset[i]
        EntryOf(i) == (CHOOSE pl \in PlacesOf(d, fl[i]) : TRUE)[1]
    IN /\ \A i \in 1..Len(fl) : Cardinality(PlacesOf(d, fl[i])) = 1
       /\ \A e \in 1..Len(d) : \A p, q \in 1..Len(d[e][2]) :
            p < q => d[e][2][p].forecast < d[e][2][q].forecast
       /\ \A i \in 1..Len(fl) :
            /\ d[EntryOf(i)][1].none = ~ts(i).has_identifiers
            /\ SeqToSet(d[EntryOf(i)][1].items) = IdentifierPairs(ts(i))
            /\ Len(d[EntryOf(i)][1].items) = Len(ts(i).identifiers)
            /\ d[EntryOf(i)][2][(CHOOSE pl \in PlacesOf(d, fl[i]) : TRUE)[2]].name
                 = <<model_name, ts(i).target_name>>
       /\ \A i, j \in 1..Len(fl) :
            (EntryOf(i) = EntryOf(j)) <=> SameIdentifiers(ts(i), ts(j))
       /\ \A e, g \in 1..Len(d) : d[e][1] = d[g][1] => e = g
       /\ \A e \in 1..Len(d) : Len(d[e][2]) >= 1
       /\ SumOfLengths(d) = Len(fl)

\* C5's case: two time series whose identifiers hold the same pairs in a
\* different order, their two forecasts in one list under one key
C5_Witness ==
  /\ mf.called
  /\ mf.out.exc = None
  /\ Len(mf.forecasts_list) = 2
  /\ train_list_dataset[1].has_identifiers
  /\ train_list_dataset[1].identifiers # train_list_dataset[2].identifiers
  /\ SameIdentifiers(train_list_dataset[1], train_list_dataset[2])
  /\ Len(mf.out.value) = 1
  /\ Len(mf.out.value[1][2]) = 2

\* a train_list_dataset _format_metrics is made for: at least one time
\* series, one row of item_metrics for each, the same identifier columns in
\* every time series
WellFormedInput ==
  /\ Len(train_list_dataset) >= 1
  /\ fm.n_items = Len(train_list_dataset)
  /\ \A i \in 1..Len(train_list_dataset) :
       /\ train_list_dataset[i].has_identifiers
            = train_list_dataset[1].has_identifiers
       /\ SeqToSet(Keys(train_list_dataset[i].identifiers))
            = SeqToSet(Keys(train_list_dataset[1].identifiers))

\* C3: for a dataset of N time series _format_metrics returns a table of
\* exactly N+1 rows: rows 1..N carry the target name and the identifier
\* values of the time series of the same index, the last row holds
\* "aggregated" in target_column and in every identifier column, and every
\* row carries the model's label in the model column.
C3_MetricsTable ==
  (fm.called /\ WellFormedInput) =>
    LET N == Len(train_list_dataset)
        metrics == fm.out.metrics
        cols == SeqToSet(Keys(train_list_dataset[1].identifiers))
    IN /\ fm.out.exc = None
       /\ Len(metrics) = N + 1
       /\ \A i \in 1..N :
            /\ metrics[i][METRICS_DATASET.TARGET_COLUMN]
                 = train_list_dataset[i].target_name
            /\ \A c \in cols :
                 metrics[i][c] = Get(train_list_dataset[i].identifiers, c)
       /\ metrics[N + 1][METRICS_DATASET.TARGET_COLUMN]
            = METRICS_DATASET.AGGREGATED_ROW
       /\ \A c \in cols : metrics[N + 1][c] = METRICS_DATASET.AGGREGATED_ROW
       /\ \A i \in 1..(N + 1) :
            metrics[i][METRICS_DATASET.MODEL_COLUMN] = GetLabel(model_name)

\* C4: the identifiers_columns that train_evaluate hands back as its second
\* value hold every identifier column carried by any time series of
\* train_list_dataset, and are empty when no time series carries identifiers
\* (stated of identifiers_columns once lines 172-180 have computed it).
C4_IdentifiersColumns ==
  (/\ fm.called
   /\ Len(train_list_dataset) >= 1
   /\ fm.n_items = Len(train_list_dataset)
   /\ fm.out.exc # "KeyError") =>
    /\ \A i \in 1..Len(train_list_dataset) :
         \A c \in SeqToSet(Keys(train_list_dataset[i].identifiers)) :
            c \in SeqToSet(fm.out.identifiers_columns)
    /\ (\A i \in 1..Len(train_list_dataset) :
          ~train_list_dataset[i].has_identifiers)
         => fm.out.identifiers_columns = <<>>

(* ------------------------- under SpecRecipe --------------------------- *)
Completed(name) == \E i \in 1..Len(trace) : trace[i] = name
Terminated == error # None \/ pc = EndOfScript

\* the part of C6 every run obeys: the steps complete in the order of the
\* script, each only after every earlier one completed without error
StepsInOrder ==
  /\ \A i \in 1..Len(trace) : trace[i] = Steps[i]
  /\ error = None => pc = (IF Len(trace) = StepIndex("set_metrics_column_description")
                                /\ ~params_make_forecasts
                           THEN EndOfScript ELSE Len(trace) + 1)
  /\ error # None => (pc = Len(trace) + 1 /\ error = Steps[pc])
  /\ (error = "assert_continuous_time_column") => global_models = "none"
  /\ ~Completed("assert_continuous_time_column") => global_models = "none"
  /\ Completed("init_all_models") <=>
       global_models \in {"initialised", "evaluated", "fitted", "saved"}
  /\ Completed("evaluate_all") <=> global_models \in {"evaluated", "fitted", "saved"}
  /\ Completed("fit_all") <=> global_models \in {"fitted", "saved"}
  /\ Completed("save_all") <=> global_models = "saved"
  /\ evaluation_dataset.content = "metrics" <=> Completed("write_metrics")
  /\ Completed("write_metrics") => global_models = "saved"
  /\ evaluation_dataset.content = "partial" => error = "write_metrics"
  /\ evaluation_forecasts.content = "forecasts"
       <=> Completed("write_evaluation_forecasts")

\* C6 as stated: ..., and the evaluation forecasts dataset is written if and
\* only if make_forecasts is true and the metrics dataset was written.
C6_Original ==
  /\ StepsInOrder
  /\ Terminated =>
       (Completed("write_evaluation_forecasts")
          <=> (params_make_forecasts /\ Completed("write_metrics")))

\* C6 amended: the recipe runs its steps in the one fixed order, a step only
\* after every earlier step completed without error; no model is initialised
\* or trained when the continuity assertion fails; the metrics dataset is
\* never written before the models are evaluated, fitted and saved; the
\* evaluation forecasts dataset is written only if make_forecasts is true and
\* the metrics dataset was written and described, and it is written in every
\* run with make_forecasts true that ends without error.
C6_RecipeOrder ==
  /\ StepsInOrder
  /\ Completed("write_evaluation_forecasts") =>
       /\ params_make_forecasts
       /\ Completed("write_metrics")
       /\ Completed("set_metrics_column_description")
       /\ Completed("get_evaluation_forecasts_df")
  /\ (pc = EndOfScript /\ error = None) =>
       /\ Completed("write_metrics")
       /\ Completed("write_evaluation_forecasts") <=> params_make_forecasts

\* C6's case: a run with make_forecasts that wrote both datasets over a
\* previous run's content and reached the end of the script
C6_Witness ==
  /\ pc = EndOfScript
  /\ error = None
  /\ params_make_forecasts
  /\ evaluation_dataset = [content |-> "metrics", descriptions |-> TRUE]
  /\ evaluation_forecasts = [content |-> "forecasts", descriptions |-> TRUE]
  /\ Len(trace) = Len(Steps)

====
